---- MODULE Spec2Model ----
(***************************************************************************)
(* Model of update_fronttest.py: the staleness scan, the per-pair update   *)
(* (history fetch, boundary reconciliation, deadzone detection and 1m gap   *)
(* fill from the public schema, bulk upsert) and the upsert writer; and of  *)
(* insert_rows of import_from_json.py, the bulk loader of the same tables.  *)
(*                                                                         *)
(* Timestamps are whole seconds since the epoch (UTC).  Prices and         *)
(* thresholds are multiples of 0.0001, written as integers (5000.10 is      *)
(* 50001000); the program holds each as the IEEE double nearest to it, and  *)
(* is_close_enough computes on those doubles.                               *)
(***************************************************************************)
EXTENDS Integers, Sequences, FiniteSets, TLC

(***************************************************************************)
(* Bounds of the model.                                                    *)
(***************************************************************************)
MaxHist == 2      \* longest provider history
MaxStored == 2    \* most rows in a table before the run
MaxPublic == 2    \* most rows in public.<symbol>_1m

(***************************************************************************)
(* 1) CONFIG                                                               *)
(***************************************************************************)
SYMBOLS == <<"es", "eurusd", "spy">>
TIMEFRAMES == <<"1m", "5m", "15m", "30m", "1h", "1d">>

CANDLE_MATCH_THRESHOLDS == [es |-> 2500, eurusd |-> 5, spy |-> 1000]

DEFAULT_THRESHOLD == 100

tolerance_sec == 90

SECONDS_PER_DAY == 86400

SPY_DAILY_OFFSET == 52200

FIVE_HOURS == 18000

\* Python's None for a timestamp, and NaN for a provider volume.
NoTs == -1

NaN == -1

SymbolSet == {SYMBOLS[i] : i \in 1..Len(SYMBOLS)}

TimeframeSet == {TIMEFRAMES[i] : i \in 1..Len(TIMEFRAMES)}

PairSet == SymbolSet \X TimeframeSet

(***************************************************************************)
(* 2) HELPER FUNCTIONS                                                     *)
(***************************************************************************)
Abs(x) == IF x < 0 THEN -x ELSE x

\* compute_candle_color without its last branch: equal prices are green.
compute_candle_color_no_doji(o, c) ==
    IF c >= o THEN "green" ELSE "red"

compute_candle_color(o, c) ==
    IF c > o THEN "green" ELSE IF c < o THEN "red" ELSE "doji"

(***************************************************************************)
(* The doubles of is_close_enough.  The double nearest to v / 10000 is     *)
(* (v * 2^k + RoundingError(v)) / (10000 * 2^k) with k = BinaryScale(v),   *)
(* the k that puts the mantissa in [2^52, 2^53).                           *)
(***************************************************************************)
RECURSIVE Pow2Mod(_, _)
\* 2^n modulo m, by squaring (m is at most 20000).
Pow2Mod(n, m) ==
    IF n = 0
    THEN 1 % m
    ELSE LET h == Pow2Mod(n \div 2, m)
         IN  (h * h * (IF n % 2 = 1 THEN 2 ELSE 1)) % m

RECURSIVE BinaryExponent(_)
\* The e with 2^e <= v / 10000 < 2^(e + 1), for v > 0.
BinaryExponent(v) ==
    IF v >= 20000
    THEN BinaryExponent(v \div 2) + 1
    ELSE IF v < 10000
         THEN BinaryExponent(2 * v) - 1
         ELSE 0

BinaryScale(v) == 52 - BinaryExponent(Abs(v))

RECURSIVE RoundingError(_)
\* Round to nearest: the remainder of v * 2^k by 10000 is dropped when it is
\* under one half, and filled up to 10000 otherwise (it is never one half:
\* k is 35 or more and 5000 is not a multiple of 16).
RoundingError(v) ==
    IF v = 0
    THEN 0
    ELSE IF v < 0
         THEN 0 - RoundingError(0 - v)
         ELSE LET r == ((v % 10000) * Pow2Mod(BinaryScale(v), 10000)) % 10000
              IN  IF r < 5000 THEN 0 - r ELSE 10000 - r

\* The mantissa of the double of v / 10000 is odd (v > 0).
OddMantissa(v) ==
    ((v % 20000) * Pow2Mod(BinaryScale(v), 20000) + RoundingError(v)) % 20000 = 10000

Saturation == 268435456

\* x * 2^n, or +-Saturation in its place when it is 16384 or more in size:
\* the terms of a finer scale are 15000 together at most and cannot change
\* the sign of the sum.
Scaled(x, n) ==
    IF x = 0
    THEN 0
    ELSE IF n > 13 \/ Abs(x) >= 131072
         THEN (IF x > 0 THEN Saturation ELSE 0 - Saturation)
         ELSE x * Pow2Mod(n, 20000)

\* The sign of the sum of c * 2^(-s) over three terms <<s, c>>, as a number
\* of that sign.
SignOfSum(terms) ==
    LET p == CHOOSE q \in {<<1, 2, 3>>, <<1, 3, 2>>, <<2, 1, 3>>,
                           <<2, 3, 1>>, <<3, 1, 2>>, <<3, 2, 1>>} :
                 /\ terms[q[1]][1] <= terms[q[2]][1]
                 /\ terms[q[2]][1] <= terms[q[3]][1]
        t1 == terms[p[1]]
        t2 == terms[p[2]]
        t3 == terms[p[3]]
    IN  Scaled(Scaled(t1[2], t2[1] - t1[1]) + t2[2], t3[1] - t2[1]) + t3[2]

\* abs(val1 - val2) <= threshold on doubles.  The doubles differ from the
\* values by less than 1e-10, so the rounding decides only when the values
\* differ by the threshold itself: the difference of the two doubles, taken
\* exactly, is then rounded to the double of the threshold or below it iff
\* it is under the midpoint of that double and the next one, or on it and
\* the mantissa of the threshold is even.
is_close_enough(val1, val2, threshold) ==
    LET a == IF val1 >= val2 THEN val1 ELSE val2
        b == IF val1 >= val2 THEN val2 ELSE val1
    IN  IF a - b # threshold
        THEN a - b < threshold
        ELSE IF threshold = 0
             THEN TRUE
             ELSE LET kt == BinaryScale(threshold)
                      ka == IF a = 0 THEN kt ELSE BinaryScale(a)
                      kb == IF b = 0 THEN kt ELSE BinaryScale(b)
                      e == SignOfSum(<<<<kt, 0 - (RoundingError(threshold) + 5000)>>,
                                       <<ka, RoundingError(a)>>,
                                       <<kb, 0 - RoundingError(b)>>>>)
                  IN  e < 0 \/ (e = 0 /\ ~OddMantissa(threshold))

adjust_daily_timestamp(symbol, orig_dt) ==
    IF symbol = "spy"
    THEN (orig_dt \div SECONDS_PER_DAY) * SECONDS_PER_DAY + SPY_DAILY_OFFSET
    ELSE (orig_dt \div SECONDS_PER_DAY) * SECONDS_PER_DAY

\* The alignment of the full-history loop with the shift of five hours
\* applied to every 5m series.
align_timestamp_shifts_every_5m(symbol, timeframe, dt) ==
    LET d1 == IF timeframe = "1d" THEN adjust_daily_timestamp(symbol, dt) ELSE dt
    IN  IF timeframe = "5m" THEN d1 + FIVE_HOURS ELSE d1

\* The timestamp alignment of the full-history loop (lines 186-191).
align_timestamp(symbol, timeframe, dt) ==
    LET d1 == IF timeframe = "1d" THEN adjust_daily_timestamp(symbol, dt) ELSE dt
    IN  IF symbol = "eurusd" /\ timeframe = "5m" THEN d1 + FIVE_HOURS ELSE d1

\* A provider row (Open, High, Low, Close, Volume at a raw timestamp) as the
\* candle dict the fetchers build from it.
yf_row_to_candle(symbol, timeframe, raw) ==
    [timestamp    |-> align_timestamp(symbol, timeframe, raw.timestamp),
     open         |-> raw.Open,
     high         |-> raw.High,
     low          |-> raw.Low,
     close        |-> raw.Close,
     volume       |-> IF raw.Volume = NaN THEN 0 ELSE raw.Volume,
     candle_color |-> compute_candle_color(raw.Open, raw.Close)]

threshold_of(sym) ==
    IF sym \in DOMAIN CANDLE_MATCH_THRESHOLDS
    THEN CANDLE_MATCH_THRESHOLDS[sym]
    ELSE DEFAULT_THRESHOLD

(***************************************************************************)
(* 7) UPSERT.  A table is the set of its rows.                             *)
(***************************************************************************)
\* UPSERT_SQL without its ON CONFLICT clause, on a table without the key.
UPSERT_SQL_insert_only(T, symbol, c) ==
    T \cup {[symbol       |-> symbol,
             timestamp    |-> c.timestamp,
             open         |-> c.open,
             high         |-> c.high,
             low          |-> c.low,
             close        |-> c.close,
             volume       |-> c.volume,
             candle_color |-> c.candle_color]}

\* UPSERT_SQL as a DELETE of the symbol's rows followed by an INSERT.
UPSERT_SQL_delete_insert(T, symbol, c) ==
    UPSERT_SQL_insert_only({r \in T : r.symbol # symbol}, symbol, c)

\* UPSERT_SQL adding the new volume to the stored one on a conflict.
UPSERT_SQL_adds_volume(T, symbol, c) ==
    IF \E r \in T : r.symbol = symbol /\ r.timestamp = c.timestamp
    THEN {IF r.symbol = symbol /\ r.timestamp = c.timestamp
          THEN [r EXCEPT !.open = c.open, !.high = c.high, !.low = c.low,
                         !.close = c.close, !.volume = r.volume + c.volume,
                         !.candle_color = c.candle_color]
          ELSE r : r \in T}
    ELSE UPSERT_SQL_insert_only(T, symbol, c)

\* UPSERT_SQL with close missing from its SET list.
UPSERT_SQL_keeps_close(T, symbol, c) ==
    IF \E r \in T : r.symbol = symbol /\ r.timestamp = c.timestamp
    THEN {IF r.symbol = symbol /\ r.timestamp = c.timestamp
          THEN [r EXCEPT !.open = c.open, !.high = c.high, !.low = c.low,
                         !.volume = c.volume,
                         !.candle_color = c.candle_color]
          ELSE r : r \in T}
    ELSE UPSERT_SQL_insert_only(T, symbol, c)

\* One execution of UPSERT_SQL: INSERT ... ON CONFLICT (symbol, timestamp)
\* DO UPDATE SET open, high, low, close, volume, candle_color.
UPSERT_SQL(T, symbol, c) ==
    IF \E r \in T : r.symbol = symbol /\ r.timestamp = c.timestamp
    THEN {IF r.symbol = symbol /\ r.timestamp = c.timestamp
          THEN [r EXCEPT !.open = c.open, !.high = c.high, !.low = c.low,
                         !.close = c.close, !.volume = c.volume,
                         !.candle_color = c.candle_color]
          ELSE r : r \in T}
    ELSE T \cup {[symbol       |-> symbol,
                  timestamp    |-> c.timestamp,
                  open         |-> c.open,
                  high         |-> c.high,
                  low          |-> c.low,
                  close        |-> c.close,
                  volume       |-> c.volume,
                  candle_color |-> c.candle_color]}

\* upsert_rows returning from inside its loop, after the first candle.
upsert_rows_first_only(T, symbol, candles) ==
    IF candles = <<>>
    THEN T
    ELSE UPSERT_SQL(T, symbol, Head(candles))

RECURSIVE upsert_rows_but_last(_, _, _)
\* upsert_rows with a loop that stops one candle early.
upsert_rows_but_last(T, symbol, candles) ==
    IF Len(candles) <= 1
    THEN T
    ELSE upsert_rows_but_last(UPSERT_SQL(T, symbol, Head(candles)), symbol, Tail(candles))

RECURSIVE upsert_rows(_, _, _)
\* The table after upsert_rows(symbol, timeframe, candles) has committed.
upsert_rows(T, symbol, candles) ==
    IF candles = <<>>
    THEN T
    ELSE upsert_rows(UPSERT_SQL(T, symbol, Head(candles)), symbol, Tail(candles))

\* engine.begin() committing every statement on its own: the statements
\* executed before the failing one stay in the table.
engine_begin_autocommit(T, symbol, candles, fail_at) ==
    IF fail_at = 0
    THEN [raised |-> FALSE, table |-> upsert_rows(T, symbol, candles)]
    ELSE [raised |-> TRUE,
          table  |-> upsert_rows(T, symbol, SubSeq(candles, 1, fail_at - 1))]

\* The block "with engine.begin() as conn:" of upsert_rows when statement
\* number fail_at raises (0: none does): the block commits on its normal
\* exit and rolls back when an exception leaves it.
engine_begin(T, symbol, candles, fail_at) ==
    IF fail_at = 0
    THEN [raised |-> FALSE, table |-> upsert_rows(T, symbol, candles)]
    ELSE [raised |-> TRUE, table |-> T]

(***************************************************************************)
(* 4), 8), 9) READS                                                        *)
(***************************************************************************)
\* SELECT MAX(timestamp): None for an empty table.
get_fronttest_latest_ts(T) ==
    IF T = {}
    THEN NoTs
    ELSE CHOOSE t \in {r.timestamp : r \in T} :
             \A u \in {r.timestamp : r \in T} : u <= t

\* The rows of the table at ts, as the set of candle dicts the query can
\* return (empty: None).
fetch_fronttest_candle(T, ts) ==
    {[timestamp    |-> ts,
      open         |-> r.open,
      high         |-> r.high,
      low          |-> r.low,
      close        |-> r.close,
      volume       |-> r.volume,
      candle_color |-> r.candle_color] : r \in {x \in T : x.timestamp = ts}}

RECURSIVE SortedByTs(_)
\* The rows of a set in ascending timestamp order (ORDER BY timestamp ASC).
SortedByTs(S) ==
    IF S = {}
    THEN <<>>
    ELSE LET r == CHOOSE x \in S : \A y \in S : x.timestamp <= y.timestamp
         IN  <<r>> \o SortedByTs(S \ {r})

fetch_public_1m_data(P, start_ts, end_ts) ==
    LET rows == SortedByTs({r \in P : r.timestamp >= start_ts /\ r.timestamp <= end_ts})
    IN  [i \in 1..Len(rows) |->
            [timestamp    |-> rows[i].timestamp,
             open         |-> rows[i].open,
             high         |-> rows[i].high,
             low          |-> rows[i].low,
             close        |-> rows[i].close,
             volume       |-> rows[i].volume,
             candle_color |-> compute_candle_color(rows[i].open, rows[i].close)]]

(***************************************************************************)
(* 3), 5), 6) PROVIDER CALLS.  A provider response is what                  *)
(* ticker.history() does: it raises, or it returns the rows of its frame    *)
(* (possibly none).                                                         *)
(***************************************************************************)
\* None (the empty set) on an exception or an empty frame, otherwise the
\* candle of the last row, its timestamp aligned.
fetch_latest_yf_candle(symbol, timeframe, resp) ==
    IF resp.raised
    THEN {}
    ELSE IF resp.hist = <<>>
         THEN {}
         ELSE LET row == resp.hist[Len(resp.hist)]
                  \* Adjust daily
                  dt1 == IF timeframe = "1d"
                         THEN adjust_daily_timestamp(symbol, row.timestamp)
                         ELSE row.timestamp
                  \* eurusd & 5m => shift +5h
                  last_dt == IF symbol = "eurusd" /\ timeframe = "5m"
                             THEN dt1 + FIVE_HOURS
                             ELSE dt1
              IN  {[timestamp |-> last_dt,
                    open      |-> row.Open,
                    high      |-> row.High,
                    low       |-> row.Low,
                    close     |-> row.Close,
                    volume    |-> IF row.Volume = NaN THEN 0 ELSE row.Volume]}

\* strftime("%Y-%m-%d %H:%M:%S %Z") of the stored timestamp.
strftime(ts) == ToString(ts)

\* is_up_to_date with an exclusive tolerance.
is_up_to_date_exclusive(yf_candle, T) ==
    IF yf_candle = {}
    THEN <<"NO YF DATA", FALSE>>
    ELSE LET db_ts == get_fronttest_latest_ts(T)
         IN  IF db_ts = NoTs
             THEN <<"NO FRONTTEST DATA", FALSE>>
             ELSE LET yf_dt == (CHOOSE c \in yf_candle : TRUE).timestamp
                      diff_sec == Abs(yf_dt - db_ts)
                  IN  <<strftime(db_ts), diff_sec < tolerance_sec>>

\* (db_ts_str, up_to_date) for the provider's latest candle and the table.
is_up_to_date(yf_candle, T) ==
    IF yf_candle = {}
    THEN <<"NO YF DATA", FALSE>>
    ELSE LET db_ts == get_fronttest_latest_ts(T)
         IN  IF db_ts = NoTs
             THEN <<"NO FRONTTEST DATA", FALSE>>
             ELSE LET yf_dt == (CHOOSE c \in yf_candle : TRUE).timestamp
                      diff_sec == Abs(yf_dt - db_ts)
                  IN  <<strftime(db_ts), diff_sec <= tolerance_sec>>

\* [] on an exception or an empty frame, otherwise one candle per row.
fetch_full_yf_history(symbol, timeframe, resp) ==
    IF resp.raised
    THEN <<>>
    ELSE [i \in 1..Len(resp.hist) |-> yf_row_to_candle(symbol, timeframe, resp.hist[i])]

RECURSIVE InsertByTs(_, _)
\* x placed after every row of the sorted sequence s whose timestamp is not
\* later than its own.
InsertByTs(s, x) ==
    IF s = <<>>
    THEN <<x>>
    ELSE IF s[Len(s)].timestamp <= x.timestamp
         THEN Append(s, x)
         ELSE Append(InsertByTs(SubSeq(s, 1, Len(s) - 1), x), s[Len(s)])

RECURSIVE sort_by_timestamp(_)
\* yf_rows.sort(key=lambda x: x["timestamp"]): ascending and stable.
sort_by_timestamp(s) ==
    IF s = <<>>
    THEN <<>>
    ELSE InsertByTs(sort_by_timestamp(SubSeq(s, 1, Len(s) - 1)), s[Len(s)])

(***************************************************************************)
(* Inputs of the model: what the provider and the stores can hold.         *)
(***************************************************************************)
\* Raw timestamps of the run: far enough apart for a gap of two seconds
\* between a stored row and the oldest fetched one.
RawTimes == {0, 1, 2, 3}

\* The pairs that can be live in a run: a 1m pair (gap fill), the shifted
\* eurusd 5m pair, a plain intraday pair and a daily pair.
LivePairs == {<<"es", "1m">>, <<"eurusd", "5m">>, <<"spy", "1h">>, <<"spy", "1d">>}

\* Timestamps the provider may report as its newest candle: the raw times and
\* the times 90 and 91 seconds after them.
LatestTimes == RawTimes \cup {t + tolerance_sec : t \in RawTimes}
                        \cup {t + tolerance_sec + 1 : t \in RawTimes}

Max(a, b) == IF a >= b THEN a ELSE b

Min(a, b) == IF a <= b THEN a ELSE b

BasePrice(sym) == 4 * threshold_of(sym)

\* Quote q of a symbol at raw time t.  Quotes 0 and 1 differ in open by one
\* tick more than the symbol's threshold, quotes 0 and 2 differ in close by
\* exactly the threshold; quote 0 has no volume.  The provider quotes 0 and 1,
\* the tables hold quote 0 before the run, the secondary store holds quote 2.
RawRow(sym, t, q) ==
    LET o == BasePrice(sym) + (threshold_of(sym) + 1) * (q % 2)
        c == BasePrice(sym) + threshold_of(sym) * (q \div 2)
    IN  [timestamp |-> t,
         Open      |-> o,
         High      |-> Max(o, c) + q + 1,
         Low       |-> Min(o, c) - q - 1,
         Close     |-> c,
         Volume    |-> IF q = 0 THEN NaN ELSE 10 * q]

RawRows(sym) == {RawRow(sym, t, q) : t \in RawTimes, q \in {0, 1}}

Responses(sym) ==
    {[raised |-> TRUE, hist |-> <<>>]}
    \cup {[raised |-> FALSE, hist |-> h] :
            h \in UNION {[1..n -> RawRows(sym)] : n \in 0..MaxHist}}

LatestResponses(sym) ==
    {[raised |-> TRUE, hist |-> <<>>]}
    \cup {[raised |-> FALSE, hist |-> h] :
            h \in UNION {[1..n -> {RawRow(sym, t, 0) : t \in LatestTimes}] : n \in 0..2}}

\* The row an earlier run stored for a provider row.
StoredRow(sym, tf, raw) ==
    LET c == yf_row_to_candle(sym, tf, raw)
    IN  [symbol       |-> sym,
         timestamp    |-> c.timestamp,
         open         |-> c.open,
         high         |-> c.high,
         low          |-> c.low,
         close        |-> c.close,
         volume       |-> c.volume,
         candle_color |-> c.candle_color]

UniqueKeys(T) ==
    \A r1, r2 \in T :
        (r1.symbol = r2.symbol /\ r1.timestamp = r2.timestamp) => r1 = r2

(***************************************************************************)
(* The bulk loader, import_from_json.py.  A JSON row carries its timestamp *)
(* as an ISO-8601 string with a UTC offset: the wall clock time and the    *)
(* offset, in seconds.                                                     *)
(***************************************************************************)
\* datetime.fromisoformat(ts_str): the instant of the string.
parse_timestamp(ts_str) == ts_str.local - ts_str.offset

\* One execution of upsert_sql: the row of the JSON, its candle_color as it
\* is found there, in the place of the stored row with its key.
upsert_sql(T, r) ==
    LET dt == parse_timestamp(r.timestamp)
    IN  {x \in T : ~(x.symbol = r.symbol /\ x.timestamp = dt)}
        \cup {[symbol       |-> r.symbol,
                timestamp    |-> dt,
                open         |-> r.open,
                high         |-> r.high,
                low          |-> r.low,
                close        |-> r.close,
                volume       |-> r.volume,
                candle_color |-> r.candle_color]}

RECURSIVE insert_rows(_, _)
\* The table after insert_rows(engine, full_table_name, rows) has committed.
insert_rows(T, rows) ==
    IF rows = <<>>
    THEN T
    ELSE insert_rows(upsert_sql(T, Head(rows)), Tail(rows))

\* The JSON row of the candle stored for raw time t, its timestamp written
\* with UTC offset z and its candle_color given as color.
JsonRow(sym, tf, t, z, color) ==
    LET s == StoredRow(sym, tf, RawRow(sym, t, 0))
    IN  [symbol       |-> sym,
         timestamp    |-> [local |-> s.timestamp + z, offset |-> z],
         open         |-> s.open,
         high         |-> s.high,
         low          |-> s.low,
         close        |-> s.close,
         volume       |-> s.volume,
         candle_color |-> color]

JsonRows(sym, tf) ==
    {JsonRow(sym, tf, t, z, color) :
        t \in {0, 2}, z \in {0, 3600}, color \in {"green", "doji"}}

\* A row the bulk loader stored: this one is the row of the first raw time,
\* open equal to close, loaded as "green".
LoadedRow(sym, tf) ==
    CHOOSE r \in insert_rows({}, <<JsonRow(sym, tf, 0, 0, "green")>>) : TRUE

InitialTables(sym, tf) ==
    {T \in SUBSET ({StoredRow(sym, tf, RawRow(sym, t, 0)) : t \in RawTimes}
                      \cup {LoadedRow(sym, tf)}) :
        Cardinality(T) <= MaxStored /\ UniqueKeys(T)}

PublicRow(sym, raw) ==
    [symbol    |-> sym,
     timestamp |-> raw.timestamp,
     open      |-> raw.Open,
     high      |-> raw.High,
     low       |-> raw.Low,
     close     |-> raw.Close,
     volume    |-> IF raw.Volume = NaN THEN 0 ELSE raw.Volume]

PublicTables(sym) ==
    {P \in SUBSET {PublicRow(sym, RawRow(sym, t, 2)) : t \in RawTimes} :
        Cardinality(P) <= MaxPublic /\ UniqueKeys(P)}

(***************************************************************************)
(* State.                                                                  *)
(***************************************************************************)
VARIABLES
    fronttest,        \* fronttest.<symbol>_<timeframe>: pair -> set of rows
    public,           \* public.<symbol>_1m: symbol -> set of rows
    live,             \* the pair the provider has data for in this run
    pc,               \* position of main()
    sym_i,            \* scan loops: index into SYMBOLS
    tf_i,             \*             index into TIMEFRAMES
    yf_candle,        \* is_up_to_date: the provider's latest candle, {} = None
    results,          \* (table_name, db_ts_str, up_to_date) per scanned pair
    out_of_date_list, \* pairs found not up to date, in scan order
    k,                \* update loop: index in out_of_date_list of the last
                      \* pair whose iteration has begun
    yf_rows,          \* fetched history of the current pair
    db_latest_ts,     \* stored latest timestamp of the current pair, or NoTs
    match_yf,         \* index in yf_rows of the boundary candle, 0 = None
    db_candle,        \* the stored boundary candle, {} = None
    gap_start,        \* bounds of the secondary read, NoTs when unset
    gap_end,
    public_data,      \* rows the secondary read returned
    log,              \* messages printed for the current pair
    calls,            \* store and provider calls made for the current pair
    probe             \* inputs and results of a function applied on its own

env == <<public, live, probe>>

store == <<fronttest, env>>

scan == <<sym_i, tf_i, yf_candle, results, out_of_date_list>>

locals == <<yf_rows, db_latest_ts, match_yf, db_candle, gap_start, gap_end,
            public_data, log, calls>>

vars == <<fronttest, public, live, pc, sym_i, tf_i, yf_candle, results,
          out_of_date_list, k, yf_rows, db_latest_ts, match_yf, db_candle,
          gap_start, gap_end, public_data, log, calls, probe>>

\* No scan result yet and no local of main assigned.
LocalsUnset ==
    /\ sym_i = 1
    /\ tf_i = 1
    /\ yf_candle = {}
    /\ results = <<>>
    /\ out_of_date_list = <<>>
    /\ k = 0
    /\ yf_rows = <<>>
    /\ db_latest_ts = NoTs
    /\ match_yf = 0
    /\ db_candle = {}
    /\ gap_start = NoTs
    /\ gap_end = NoTs
    /\ public_data = <<>>
    /\ log = {}
    /\ calls = <<>>

\* main() before its first statement.
MainEntry == pc = "scan" /\ LocalsUnset

\* One pair has stored rows and provider data; every other table is empty
\* and the provider has nothing for it.  The secondary store holds rows only
\* for the symbol of a live 1m pair.
Init ==
    /\ live \in LivePairs
    /\ \E T \in InitialTables(live[1], live[2]) :
          fronttest = [p \in PairSet |-> IF p = live THEN T ELSE {}]
    /\ \E P \in PublicTables(live[1]) :
          public = [s \in SymbolSet |->
                      IF s = live[1] /\ live[2] = "1m" THEN P ELSE {}]
    /\ probe = [op |-> "main"]
    /\ MainEntry

(***************************************************************************)
(* 10) MAIN LOGIC: 1) the staleness scan, 2) the status table.             *)
(***************************************************************************)
table_name(sym, tf) == sym \o "_" \o tf

\* The scan listing every pair for an update, up to date or not.
append_every_pair(list, pair, up_to_date) == Append(list, pair)

\* if not up_to_date: out_of_date_list.append((sym, tf))
append_if_not_up_to_date(list, pair, up_to_date) ==
    IF up_to_date THEN list ELSE Append(list, pair)

ScanPair ==
    /\ pc = "scan"
    /\ LET sym == SYMBOLS[sym_i]
           tf == TIMEFRAMES[tf_i]
       IN  \E resp \in (IF <<sym, tf>> = live
                        THEN LatestResponses(sym)
                        ELSE {[raised |-> FALSE, hist |-> <<>>]}) :
             LET candle == fetch_latest_yf_candle(sym, tf, resp)
                 res == is_up_to_date(candle, fronttest[<<sym, tf>>])
             IN  /\ yf_candle' = candle
                 /\ results' = Append(results, <<table_name(sym, tf), res[1], res[2]>>)
                 /\ out_of_date_list' =
                       append_if_not_up_to_date(out_of_date_list, <<sym, tf>>, res[2])
    /\ IF tf_i < Len(TIMEFRAMES)
       THEN /\ tf_i' = tf_i + 1
            /\ sym_i' = sym_i
            /\ pc' = "scan"
       ELSE IF sym_i < Len(SYMBOLS)
            THEN /\ tf_i' = 1
                 /\ sym_i' = sym_i + 1
                 /\ pc' = "scan"
            ELSE /\ UNCHANGED <<sym_i, tf_i>>
                 /\ pc' = "status"
    /\ UNCHANGED <<store, k, locals>>

\* The status table is printed; main returns when nothing is out of date.
PrintStatus ==
    /\ pc = "status"
    /\ IF out_of_date_list = <<>>
       THEN pc' = "done"
       ELSE pc' = "fetch"
    /\ k' = k
    /\ UNCHANGED <<store, scan, locals>>

(***************************************************************************)
(* 10) MAIN LOGIC: 3) the update of every out-of-date pair.                *)
(***************************************************************************)
\* The answers the prompts used to ask for.
ans == "yes"

choice == "2"

ans_pub == "yes"

\* The loop left (break) where it goes on to the next pair (continue).
loop_pc_break(n) == "done"

\* Where main goes when the iteration of pair number n of out_of_date_list
\* ends: to the next pair, or out of the loop.
loop_pc(n) == IF n < Len(out_of_date_list) THEN "fetch" ELSE "done"

\* next((r for r in yf_rows if r["timestamp"] == db_latest_ts), None), as the
\* index of that row (0: None).
find_match_yf(rows, ts) ==
    IF \E i \in 1..Len(rows) : rows[i].timestamp = ts
    THEN CHOOSE i \in 1..Len(rows) :
             /\ rows[i].timestamp = ts
             /\ \A j \in 1..(i - 1) : rows[j].timestamp # ts
    ELSE 0

\* open_ok and close_ok of the boundary comparison.
boundary_match(sym, db, yf) ==
    LET threshold == threshold_of(sym)
        open_ok == is_close_enough(db.open, yf.open, threshold)
        close_ok == is_close_enough(db.close, yf.close, threshold)
    IN  open_ok /\ close_ok

\* resolve_mismatch overwriting every fetched row, not only the boundary one.
resolve_mismatch_every_row(rows, m, db, ch) ==
    IF ch = "1"
    THEN [i \in 1..Len(rows) |->
            [rows[i] EXCEPT !.open = db.open,
                            !.close = db.close,
                            !.high = db.high,
                            !.low = db.low,
                            !.volume = db.volume,
                            !.candle_color = db.candle_color]]
    ELSE rows

\* The fetched rows after the mismatch has been resolved with answer ch.
resolve_mismatch(rows, m, db, ch) ==
    IF ch = "1"
    THEN [rows EXCEPT ![m] = [@ EXCEPT !.open = db.open,
                                       !.close = db.close,
                                       !.high = db.high,
                                       !.low = db.low,
                                       !.volume = db.volume,
                                       !.candle_color = db.candle_color]]
    ELSE rows

\* The deadzone test with >= for >.
deadzone_inclusive(oldest_yf_dt, latest_ts) == oldest_yf_dt >= latest_ts

deadzone(oldest_yf_dt, latest_ts) == oldest_yf_dt > latest_ts

gap_start_of(latest_ts) == latest_ts + 1

\* gap_end without the second taken off: the gap ends on the oldest fetched
\* timestamp.
gap_end_at_oldest(oldest_yf_dt) == oldest_yf_dt

gap_end_of(oldest_yf_dt) == oldest_yf_dt - 1

\* The empty-gap test with < for <=.
gap_is_empty_strict(gs, ge) == ge < gs

gap_is_empty(gs, ge) == ge <= gs

\* What ticker.history(period="max") can answer for a pair.
ProviderHistories(pair) ==
    IF pair = live
    THEN Responses(pair[1])
    ELSE {[raised |-> FALSE, hist |-> <<>>]}

\* 3a) fetch the full history and sort it; an empty result skips the pair.
\* resp is the provider's answer to this call.
FetchWith(resp) ==
    /\ pc = "fetch"
    /\ k' = k + 1
    /\ LET sym == out_of_date_list[k + 1][1]
           tf == out_of_date_list[k + 1][2]
       IN  IF ans \notin {"yes", "y"}
           THEN /\ yf_rows' = <<>>
                /\ log' = {"SKIPPING"}
                /\ calls' = <<>>
                /\ pc' = loop_pc(k + 1)
           ELSE LET rows == fetch_full_yf_history(sym, tf, resp)
                IN  /\ calls' = <<"yf_history">>
                    /\ IF rows = <<>>
                       THEN /\ yf_rows' = <<>>
                            /\ log' = {"NO_YF_SKIP"}
                            /\ pc' = loop_pc(k + 1)
                       ELSE /\ yf_rows' = sort_by_timestamp(rows)
                            /\ log' = {}
                            /\ pc' = "reconcile"
    \* the locals of the previous pair are not read again before they are
    \* assigned
    /\ db_latest_ts' = NoTs
    /\ match_yf' = 0
    /\ db_candle' = {}
    /\ gap_start' = NoTs
    /\ gap_end' = NoTs
    /\ public_data' = <<>>
    /\ UNCHANGED <<fronttest, public, live, scan>>

FetchHistory ==
    /\ pc = "fetch"
    /\ \E resp \in ProviderHistories(out_of_date_list[k + 1]) : FetchWith(resp)
    /\ UNCHANGED probe

\* 3b) has two transactions on the table of the pair, each a step of its own:
\* the connection is released between them.
\* 3b), first transaction: get_fronttest_latest_ts, and the search of the
\* fetched series for that timestamp.
ReadLatestTs ==
    /\ pc = "reconcile"
    /\ LET sym == out_of_date_list[k][1]
           tf == out_of_date_list[k][2]
           ts == get_fronttest_latest_ts(fronttest[<<sym, tf>>])
           m == find_match_yf(yf_rows, ts)
       IN  /\ db_latest_ts' = ts
           /\ calls' = Append(calls, "max_ts")
           /\ IF ts = NoTs
              THEN /\ match_yf' = 0
                   /\ log' = {"EMPTY_TABLE"}
                   /\ pc' = "upsert"
              ELSE /\ match_yf' = m
                   /\ log' = log
                   /\ pc' = IF m = 0 THEN "gap" ELSE "candle"
    /\ db_candle' = {}
    /\ UNCHANGED <<store, scan, k, yf_rows, gap_start, gap_end, public_data>>

\* 3b), second transaction: fetch_fronttest_candle for the timestamp read
\* before, and the comparison with the fetched candle.
ReadBoundaryCandle ==
    /\ pc = "candle"
    /\ LET sym == out_of_date_list[k][1]
           tf == out_of_date_list[k][2]
           found == fetch_fronttest_candle(fronttest[<<sym, tf>>], db_latest_ts)
       IN  IF found = {}
           THEN /\ db_candle' = {}
                /\ yf_rows' = yf_rows
                /\ log' = log
           ELSE \E db \in found :
                  /\ db_candle' = {db}
                  /\ IF boundary_match(sym, db, yf_rows[match_yf])
                     THEN /\ yf_rows' = yf_rows
                          /\ log' = {"MATCH"}
                     ELSE /\ yf_rows' = resolve_mismatch(yf_rows, match_yf, db, choice)
                          /\ log' = {"MISMATCH",
                                     IF choice = "1"
                                     THEN "KEPT_FRONTTEST"
                                     ELSE "KEPT_YFINANCE"}
    /\ calls' = Append(calls, "candle")
    /\ pc' = "gap"
    /\ UNCHANGED <<store, scan, k, db_latest_ts, match_yf, gap_start, gap_end,
                   public_data>>

\* The deadzone check and, for 1m, the fill of the gap from public.<sym>_1m.
GapFill ==
    /\ pc = "gap"
    /\ LET sym == out_of_date_list[k][1]
           tf == out_of_date_list[k][2]
           oldest_yf_dt == yf_rows[1].timestamp
           gs == gap_start_of(db_latest_ts)
           ge == gap_end_of(oldest_yf_dt)
           data == fetch_public_1m_data(public[sym], gs, ge)
       IN  IF ~deadzone(oldest_yf_dt, db_latest_ts)
           THEN UNCHANGED <<fronttest, gap_start, gap_end, public_data, log, calls>>
           ELSE IF tf # "1m"
                THEN /\ log' = log \cup {"DEADZONE", "NO_AUTOFILL"}
                     /\ UNCHANGED <<fronttest, gap_start, gap_end, public_data, calls>>
                ELSE IF ans_pub \notin {"yes", "y"}
                     THEN /\ log' = log \cup {"DEADZONE"}
                          /\ UNCHANGED <<fronttest, gap_start, gap_end, public_data, calls>>
                     ELSE /\ gap_start' = gs
                          /\ gap_end' = ge
                          /\ IF gap_is_empty(gs, ge)
                             THEN /\ log' = log \cup {"DEADZONE", "GAP_EMPTY"}
                                  /\ UNCHANGED <<fronttest, public_data, calls>>
                             ELSE /\ public_data' = data
                                  /\ IF data # <<>>
                                     THEN /\ fronttest' =
                                               [fronttest EXCEPT ![<<sym, tf>>] =
                                                   upsert_rows(@, sym, data)]
                                          /\ log' = log \cup {"DEADZONE", "PUBLIC_FOUND"}
                                          /\ calls' = calls \o <<"public_read", "upsert_gap">>
                                     ELSE /\ fronttest' = fronttest
                                          /\ log' = log \cup {"DEADZONE", "PUBLIC_NONE"}
                                          /\ calls' = Append(calls, "public_read")
    /\ pc' = "upsert"
    /\ UNCHANGED <<env, scan, k, yf_rows, db_latest_ts, match_yf, db_candle>>

\* 3c) upsert the whole fetched series.
BulkUpsert ==
    /\ pc = "upsert"
    /\ LET sym == out_of_date_list[k][1]
           tf == out_of_date_list[k][2]
       IN  fronttest' = [fronttest EXCEPT ![<<sym, tf>>] = upsert_rows(@, sym, yf_rows)]
    /\ calls' = Append(calls, "upsert_bulk")
    /\ pc' = loop_pc(k)
    /\ UNCHANGED <<env, scan, k, yf_rows, db_latest_ts, match_yf, db_candle,
                   gap_start, gap_end, public_data, log>>

Next ==
    \/ ScanPair
    \/ PrintStatus
    \/ FetchHistory
    \/ ReadLatestTs
    \/ ReadBoundaryCandle
    \/ GapFill
    \/ BulkUpsert

Spec == Init /\ [][Next]_vars

TypeOK ==
    /\ pc \in {"scan", "status", "fetch", "reconcile", "candle", "gap",
               "upsert", "done", "raised"}
    /\ live \in PairSet
    /\ k \in 0..Len(out_of_date_list)

(***************************************************************************)
(* The update run when store calls can raise (SpecStoreFails).  main()     *)
(* wraps no store call in try/except, neither in the scan nor in the       *)
(* update loop: an exception raised by a store call leaves main, and the   *)
(* run is over (pc = "raised").  The call that raised is the last entry of *)
(* calls.                                                                  *)
(***************************************************************************)
\* 1) the scan: get_fronttest_latest_ts raises inside is_up_to_date, which
\* calls it only when the provider returned a candle.
ScanRaises ==
    /\ pc = "scan"
    /\ LET sym == SYMBOLS[sym_i]
           tf == TIMEFRAMES[tf_i]
       IN  /\ <<sym, tf>> = live
           /\ \E resp \in LatestResponses(sym) :
                 /\ fetch_latest_yf_candle(sym, tf, resp) # {}
                 /\ yf_candle' = fetch_latest_yf_candle(sym, tf, resp)
    /\ pc' = "raised"
    /\ calls' = <<"raise_max_ts">>
    /\ UNCHANGED <<store, sym_i, tf_i, results, out_of_date_list, k, yf_rows,
                   db_latest_ts, match_yf, db_candle, gap_start, gap_end,
                   public_data, log>>

\* 3b), first transaction: get_fronttest_latest_ts raises.
ReadLatestTsRaises ==
    /\ pc = "reconcile"
    /\ calls' = Append(calls, "raise_max_ts")
    /\ pc' = "raised"
    /\ UNCHANGED <<store, scan, k, yf_rows, db_latest_ts, match_yf, db_candle,
                   gap_start, gap_end, public_data, log>>

\* 3b), second transaction: fetch_fronttest_candle raises.
ReadBoundaryCandleRaises ==
    /\ pc = "candle"
    /\ calls' = Append(calls, "raise_candle")
    /\ pc' = "raised"
    /\ UNCHANGED <<store, scan, k, yf_rows, db_latest_ts, match_yf, db_candle,
                   gap_start, gap_end, public_data, log>>

\* The gap fill: fetch_public_1m_data raises, or the gap-fill upsert_rows
\* does.
GapFillRaises ==
    /\ pc = "gap"
    /\ LET sym == out_of_date_list[k][1]
           tf == out_of_date_list[k][2]
           oldest_yf_dt == yf_rows[1].timestamp
           gs == gap_start_of(db_latest_ts)
           ge == gap_end_of(oldest_yf_dt)
           data == fetch_public_1m_data(public[sym], gs, ge)
       IN  /\ deadzone(oldest_yf_dt, db_latest_ts)
           /\ tf = "1m"
           /\ ans_pub \in {"yes", "y"}
           /\ ~gap_is_empty(gs, ge)
           /\ gap_start' = gs
           /\ gap_end' = ge
           /\ \/ /\ calls' = Append(calls, "raise_public_read")
                 /\ log' = log \cup {"DEADZONE"}
                 /\ UNCHANGED <<fronttest, public_data>>
              \/ /\ data # <<>>
                 /\ public_data' = data
                 /\ \E fail_at \in 1..Len(data) :
                       fronttest' = [fronttest EXCEPT ![<<sym, tf>>] =
                                        engine_begin(@, sym, data, fail_at).table]
                 /\ log' = log \cup {"DEADZONE", "PUBLIC_FOUND"}
                 /\ calls' = calls \o <<"public_read", "raise_upsert_gap">>
    /\ pc' = "raised"
    /\ UNCHANGED <<env, scan, k, yf_rows, db_latest_ts, match_yf, db_candle>>

\* 3c) the bulk upsert_rows raises at one of its statements.
BulkUpsertRaises ==
    /\ pc = "upsert"
    /\ LET sym == out_of_date_list[k][1]
           tf == out_of_date_list[k][2]
       IN  \E fail_at \in 1..Len(yf_rows) :
               fronttest' = [fronttest EXCEPT ![<<sym, tf>>] =
                                engine_begin(@, sym, yf_rows, fail_at).table]
    /\ calls' = Append(calls, "raise_upsert_bulk")
    /\ pc' = "raised"
    /\ UNCHANGED <<env, scan, k, yf_rows, db_latest_ts, match_yf, db_candle,
                   gap_start, gap_end, public_data, log>>

NextStoreFails ==
    \/ Next
    \/ ScanRaises
    \/ ReadLatestTsRaises
    \/ ReadBoundaryCandleRaises
    \/ GapFillRaises
    \/ BulkUpsertRaises

SpecStoreFails == Init /\ [][NextStoreFails]_vars

(***************************************************************************)
(* The update run with the bulk loader at work on the same tables          *)
(* (SpecLoad): the loader's process makes its one call of insert_rows for  *)
(* the table of the pair, before, during or after the run of main.  Each   *)
(* step of main holds one transaction on the table at most, so that the    *)
(* loader can commit between any two.  The gap fill reads the public       *)
(* schema, which the loader does not write, and then makes its one         *)
(* transaction on the table.                                               *)
(***************************************************************************)
InitLoad ==
    /\ live \in LivePairs
    /\ \E T \in InitialTables(live[1], live[2]) :
          fronttest = [p \in PairSet |-> IF p = live THEN T ELSE {}]
    /\ \E P \in PublicTables(live[1]) :
          public = [s \in SymbolSet |->
                      IF s = live[1] /\ live[2] = "1m" THEN P ELSE {}]
    /\ probe = [op |-> "load", loaded |-> FALSE]
    /\ MainEntry

\* insert_rows(engine, "fronttest.<table>", rows) for the rows of the
\* table's entry in fronttest_data.json; an entry without rows is skipped.
ImportRows ==
    /\ probe.op = "load"
    /\ ~probe.loaded
    /\ \E rows \in UNION {[1..n -> JsonRows(live[1], live[2])] : n \in 1..2} :
          fronttest' = [fronttest EXCEPT ![live] = insert_rows(@, rows)]
    /\ probe' = [probe EXCEPT !.loaded = TRUE]
    /\ UNCHANGED <<public, live, pc, scan, k, locals>>

NextLoad ==
    \/ ScanPair
    \/ PrintStatus
    \/ FetchHistory
    \/ ReadLatestTs
    \/ ReadBoundaryCandle
    \/ GapFill
    \/ BulkUpsert
    \/ ImportRows

SpecLoad == InitLoad /\ [][NextLoad]_vars

(***************************************************************************)
(* The update run made twice (SpecRerun).  main runs, no store call        *)
(* raises, and returns; then main is run again on the stores as the first  *)
(* run left them, and the provider answers the history call of the pair    *)
(* it has data for as it answered it in the first run.  probe keeps that   *)
(* answer and the table the first run left.                                *)
(***************************************************************************)
InitRerun ==
    /\ live \in LivePairs
    /\ \E T \in InitialTables(live[1], live[2]) :
          fronttest = [p \in PairSet |-> IF p = live THEN T ELSE {}]
    /\ \E P \in PublicTables(live[1]) :
          public = [s \in SymbolSet |->
                      IF s = live[1] /\ live[2] = "1m" THEN P ELSE {}]
    /\ probe = [op |-> "rerun", run |-> 1, fetched |-> FALSE,
                resp |-> [raised |-> FALSE, hist |-> <<>>], first |-> {}]
    /\ MainEntry

\* 3a) in the first run; the answer for the pair with provider data is kept.
FetchFirst ==
    /\ probe.op = "rerun"
    /\ probe.run = 1
    /\ pc = "fetch"
    /\ \E resp \in ProviderHistories(out_of_date_list[k + 1]) :
          /\ FetchWith(resp)
          /\ probe' = IF out_of_date_list[k + 1] = live
                       THEN [probe EXCEPT !.fetched = TRUE, !.resp = resp]
                       ELSE probe

\* main has returned from a run that fetched the pair's history, and is
\* called again: it begins with no local assigned.
RunAgain ==
    /\ probe.op = "rerun"
    /\ probe.run = 1
    /\ probe.fetched
    /\ pc = "done"
    /\ probe' = [probe EXCEPT !.run = 2, !.first = fronttest[live]]
    /\ pc' = "scan"
    /\ sym_i' = 1
    /\ tf_i' = 1
    /\ yf_candle' = {}
    /\ results' = <<>>
    /\ out_of_date_list' = <<>>
    /\ k' = 0
    /\ yf_rows' = <<>>
    /\ db_latest_ts' = NoTs
    /\ match_yf' = 0
    /\ db_candle' = {}
    /\ gap_start' = NoTs
    /\ gap_end' = NoTs
    /\ public_data' = <<>>
    /\ log' = {}
    /\ calls' = <<>>
    /\ UNCHANGED <<fronttest, public, live>>

\* 3a) in the second run: the provider answers as it did in the first.
FetchSameHistory ==
    /\ probe.op = "rerun"
    /\ probe.run = 2
    /\ pc = "fetch"
    /\ FetchWith(IF out_of_date_list[k + 1] = live
                 THEN probe.resp
                 ELSE [raised |-> FALSE, hist |-> <<>>])
    /\ UNCHANGED probe

NextRerun ==
    \/ ScanPair
    \/ PrintStatus
    \/ FetchFirst
    \/ RunAgain
    \/ FetchSameHistory
    \/ ReadLatestTs
    \/ ReadBoundaryCandle
    \/ GapFill
    \/ BulkUpsert

SpecRerun == InitRerun /\ [][NextRerun]_vars

(***************************************************************************)
(* upsert_rows called on its own (SpecUpsert): one call with any candle    *)
(* sequence, then the same call again or a call with one more candle.      *)
(***************************************************************************)
\* Candles as the fetchers build them, from quotes 0 and 3, which differ in
\* every field.
UpsertCandles(sym, tf) ==
    {yf_row_to_candle(sym, tf, RawRow(sym, t, q)) : t \in RawTimes, q \in {0, 3}}

InitUpsert ==
    /\ live \in LivePairs
    /\ \E T \in InitialTables(live[1], live[2]) :
          fronttest = [p \in PairSet |-> IF p = live THEN T ELSE {}]
    /\ public = [s \in SymbolSet |-> {}]
    /\ probe = [op |-> "upsert", n |-> 0, candles |-> <<>>, written |-> <<>>,
                before |-> {}, count |-> 0, raised |-> FALSE]
    /\ pc = "call"
    /\ LocalsUnset

\* upsert_rows(symbol, timeframe, candles) on the table of the live pair.
CallUpsert(candles) ==
    /\ fronttest' = [fronttest EXCEPT ![live] = upsert_rows(@, live[1], candles)]
    /\ probe' = [op      |-> "upsert",
                 n       |-> probe.n + 1,
                 candles |-> candles,
                 written |-> probe.written \o candles,
                 before  |-> fronttest[live],
                 count   |-> Len(candles),
                 raised  |-> FALSE]
    /\ UNCHANGED <<public, live, pc, scan, k, locals>>

UpsertFirst ==
    /\ probe.op = "upsert"
    /\ probe.n = 0
    /\ \E candles \in UNION {[1..n -> UpsertCandles(live[1], live[2])] : n \in 0..MaxHist} :
          CallUpsert(candles)

UpsertAgain ==
    /\ probe.op = "upsert"
    /\ probe.n = 1
    /\ CallUpsert(probe.candles)

UpsertOther ==
    /\ probe.op = "upsert"
    /\ probe.n = 1
    /\ \E c \in UpsertCandles(live[1], live[2]) : CallUpsert(<<c>>)

\* A first call in which the statement of candle number fail_at raises: the
\* exception leaves upsert_rows, nothing is returned.
UpsertRaises ==
    /\ probe.op = "upsert"
    /\ probe.n = 0
    /\ \E candles \in UNION {[1..n -> UpsertCandles(live[1], live[2])] : n \in 1..MaxHist} :
          \E fail_at \in 1..Len(candles) :
              /\ fronttest' = [fronttest EXCEPT ![live] =
                                  engine_begin(@, live[1], candles, fail_at).table]
              /\ probe' = [op      |-> "upsert",
                           n       |-> probe.n + 1,
                           candles |-> candles,
                           written |-> probe.written,
                           before  |-> fronttest[live],
                           count   |-> fail_at - 1,
                           raised  |-> engine_begin(fronttest[live], live[1],
                                                    candles, fail_at).raised]
    /\ UNCHANGED <<public, live, pc, scan, k, locals>>

NextUpsert ==
    \/ UpsertFirst
    \/ UpsertAgain
    \/ UpsertOther
    \/ UpsertRaises

SpecUpsert == InitUpsert /\ [][NextUpsert]_vars

(***************************************************************************)
(* The boundary comparison applied on its own (SpecMatch).                 *)
(***************************************************************************)
\* Prices at, and one tick beyond, the symbol's threshold from a base price;
\* for es the prices 5000.00, 5000.10 and 5000.50, and for spy the prices
\* 500.00 and 500.10.
MatchPrices(sym) ==
    {BasePrice(sym), BasePrice(sym) + threshold_of(sym),
     BasePrice(sym) + threshold_of(sym) + 1}
    \cup (IF sym = "es" THEN {50000000, 50001000, 50005000} ELSE {})
    \cup (IF sym = "spy" THEN {5000000, 5001000} ELSE {})

MatchCandles(sym) ==
    {[timestamp    |-> 0,
      open         |-> o,
      high         |-> Max(o, c) + 1 + v,
      low          |-> Min(o, c) - 1 - v,
      close        |-> c,
      volume       |-> 10 * v,
      candle_color |-> compute_candle_color(o, c)] :
        o \in MatchPrices(sym), c \in MatchPrices(sym), v \in {0, 1}}

\* A symbol without an entry in CANDLE_MATCH_THRESHOLDS.
UnlistedSymbol == "nq"

InitMatch ==
    /\ live = <<SYMBOLS[1], TIMEFRAMES[1]>>
    /\ fronttest = [p \in PairSet |-> {}]
    /\ public = [s \in SymbolSet |-> {}]
    /\ \E sym \in SymbolSet \cup {UnlistedSymbol} :
          \E db \in MatchCandles(sym) : \E yf \in MatchCandles(sym) :
              probe = [op |-> "match", sym |-> sym, db |-> db, yf |-> yf,
                       verdict |-> "NONE"]
    /\ pc = "call"
    /\ LocalsUnset

\* Lines 382-388 on the stored candle probe.db and the fetched candle
\* probe.yf.
CompareBoundary ==
    /\ probe.op = "match"
    /\ probe.verdict = "NONE"
    /\ probe' = [probe EXCEPT !.verdict =
                    IF boundary_match(probe.sym, probe.db, probe.yf)
                    THEN "MATCH"
                    ELSE "MISMATCH"]
    /\ UNCHANGED <<fronttest, public, live, pc, scan, k, locals>>

NextMatch == CompareBoundary

SpecMatch == InitMatch /\ [][NextMatch]_vars

(***************************************************************************)
(* The timestamp alignment of the two fetchers applied on its own           *)
(* (SpecAlign): the provider returns one row at a raw UTC timestamp, and    *)
(* the latest-candle fetch and the full-history fetch each normalize it.    *)
(***************************************************************************)
\* 2025-03-26 as a number of days since 1970-01-01.
AlignDay == 20173

\* Raw timestamps on 2025-03-26 (00:00:00, 14:29:59, 14:30:00, 19:00:00,
\* 23:59:59) and on the next day (00:00:00, 01:00:00).
AlignTimes ==
    {AlignDay * SECONDS_PER_DAY + s :
        s \in {0, 52199, 52200, 68400, 86399, 86400, 90000}}

InitAlign ==
    /\ live = <<SYMBOLS[1], TIMEFRAMES[1]>>
    /\ fronttest = [p \in PairSet |-> {}]
    /\ public = [s \in SymbolSet |-> {}]
    /\ \E p \in PairSet : \E ts \in AlignTimes :
          probe = [op |-> "align", symbol |-> p[1], timeframe |-> p[2],
                   source |-> ts, latest |-> NoTs, full |-> NoTs]
    /\ pc = "call"
    /\ LocalsUnset

\* The provider's answer: one row at the raw timestamp.
AlignResponse ==
    [raised |-> FALSE, hist |-> <<RawRow(probe.symbol, probe.source, 1)>>]

\* fetch_latest_yf_candle(symbol, timeframe)["timestamp"].
AlignLatest ==
    /\ probe.op = "align"
    /\ probe.latest = NoTs
    /\ \E c \in fetch_latest_yf_candle(probe.symbol, probe.timeframe, AlignResponse) :
          probe' = [probe EXCEPT !.latest = c.timestamp]
    /\ UNCHANGED <<fronttest, public, live, pc, scan, k, locals>>

\* fetch_full_yf_history(symbol, timeframe)[0]["timestamp"].
AlignFull ==
    /\ probe.op = "align"
    /\ probe.full = NoTs
    /\ probe' = [probe EXCEPT !.full =
                    fetch_full_yf_history(probe.symbol, probe.timeframe,
                                          AlignResponse)[1].timestamp]
    /\ UNCHANGED <<fronttest, public, live, pc, scan, k, locals>>

NextAlign ==
    \/ AlignLatest
    \/ AlignFull

SpecAlign == InitAlign /\ [][NextAlign]_vars

(***************************************************************************)
(* Vocabulary of the properties.                                           *)
(***************************************************************************)
\* The pair whose iteration of the update loop is running or has just ended.
CurPair == out_of_date_list[k]

CurTable == fronttest[CurPair]

Called(what) == \E i \in 1..Len(calls) : calls[i] = what

\* The bulk upsert of the current pair has committed.
BulkDone == calls # <<>> /\ calls[Len(calls)] = "upsert_bulk"

\* The deadzone step of the current pair is over.
PastGap == k >= 1 /\ (pc = "upsert" \/ BulkDone)

TimestampsOf(rows) == {rows[i].timestamp : i \in 1..Len(rows)}

OldestTs(rows) ==
    CHOOSE t \in TimestampsOf(rows) : \A u \in TimestampsOf(rows) : t <= u

\* The last candle of a sequence that carries timestamp ts.
LastWithTs(rows, ts) ==
    rows[CHOOSE i \in 1..Len(rows) :
            /\ rows[i].timestamp = ts
            /\ \A j \in (i + 1)..Len(rows) : rows[j].timestamp # ts]

RowsAt(T, ts) == {r \in T : r.timestamp = ts}

\* The table row that holds exactly the fields of candle c.
RowOf(sym, c) ==
    [symbol       |-> sym,
     timestamp    |-> c.timestamp,
     open         |-> c.open,
     high         |-> c.high,
     low          |-> c.low,
     close        |-> c.close,
     volume       |-> c.volume,
     candle_color |-> c.candle_color]

\* The (symbol, timestamp) keys present in a table.
KeysOf(T) == {<<r.symbol, r.timestamp>> : r \in T}

\* The pair of the i-th is_up_to_date call of the scan.
PairAt(i) ==
    <<SYMBOLS[((i - 1) \div Len(TIMEFRAMES)) + 1],
      TIMEFRAMES[((i - 1) % Len(TIMEFRAMES)) + 1]>>

\* The pairs the scan has judged up to date so far.
UpToDatePairs(res) == {PairAt(i) : i \in {j \in 1..Len(res) : res[j][3]}}

\* The pair scanned by the latest is_up_to_date call.
ScannedPair ==
    <<SYMBOLS[((Len(results) - 1) \div Len(TIMEFRAMES)) + 1],
      TIMEFRAMES[((Len(results) - 1) % Len(TIMEFRAMES)) + 1]>>

(***************************************************************************)
(* Properties of the update run (Spec).                                    *)
(***************************************************************************)
\* C3: in every reachable state of an update run every (symbol, timeframe)
\* table holds at most one row per timestamp, whatever gap-fill and bulk
\* upserts have run and also when the fetched series repeats a timestamp.
C3_OneRowPerTimestamp ==
    \A p \in PairSet :
        \A r1, r2 \in fronttest[p] : r1.timestamp = r2.timestamp => r1 = r2

\* C3 witness: a gap fill and a bulk upsert of a series with a repeated
\* timestamp have both been committed.
C3_Witness ==
    /\ BulkDone
    /\ Called("upsert_gap")
    /\ Cardinality(TimestampsOf(yf_rows)) < Len(yf_rows)

\* C4: the scan reports a pair up to date if and only if the provider's
\* latest candle and the stored latest timestamp both exist and differ by at
\* most 90 seconds (90 is up to date, 91 is stale).
C4_UpToDateIff ==
    (pc \in {"scan", "status"} /\ results # <<>>) =>
        LET T == fronttest[ScannedPair]
            up_to_date == results[Len(results)][3]
        IN  /\ up_to_date <=>
                  \E c \in yf_candle : \E r \in T :
                      /\ \A u \in T : u.timestamp <= r.timestamp
                      /\ c.timestamp - r.timestamp <= 90
                      /\ r.timestamp - c.timestamp <= 90
            /\ (yf_candle = {} \/ T = {}) => ~up_to_date
            /\ up_to_date <=> ScannedPair \notin
                                 {out_of_date_list[i] : i \in 1..Len(out_of_date_list)}

\* C4 witness: a pair whose provider candle is exactly 90 seconds later than
\* its stored latest row has been reported up to date.
C4_Witness ==
    /\ pc \in {"scan", "status"}
    /\ results # <<>>
    /\ results[Len(results)][3]
    /\ \E c \in yf_candle :
          c.timestamp = get_fronttest_latest_ts(fronttest[ScannedPair]) + 90

\* C5: for a pair whose table is non-empty a deadzone is reported if and only
\* if the oldest fetched timestamp is strictly later than the stored latest
\* timestamp (equal: none); for an empty table no deadzone check is made.
C5_DeadzoneIff ==
    /\ pc = "gap" =>
          CurTable # {} /\ db_latest_ts = get_fronttest_latest_ts(CurTable)
    /\ (pc = "upsert" /\ db_latest_ts = NoTs) =>
          CurTable = {} /\ log = {"EMPTY_TABLE"}
    /\ PastGap =>
          ("DEADZONE" \in log <=>
              (db_latest_ts # NoTs /\ OldestTs(yf_rows) > db_latest_ts))

\* C5 witness: a deadzone has been reported for a series that begins one
\* second after the stored latest timestamp.
C5_Witness ==
    /\ PastGap
    /\ "DEADZONE" \in log
    /\ OldestTs(yf_rows) = db_latest_ts + 1

\* C6: the secondary store is read if and only if the timeframe is 1m, a
\* deadzone was detected and gap_end = oldest - 1s is strictly greater than
\* gap_start = latest + 1s; it is then read with the inclusive range
\* [gap_start, gap_end]; in every other case there is neither a secondary
\* read nor a gap-fill write.
C6_SecondaryReadIff ==
    /\ (k >= 1 /\ ~PastGap) => ~Called("public_read") /\ ~Called("upsert_gap")
    /\ PastGap =>
          /\ Called("public_read") <=>
                /\ CurPair[2] = "1m"
                /\ db_latest_ts # NoTs
                /\ OldestTs(yf_rows) > db_latest_ts
                /\ OldestTs(yf_rows) - 1 > db_latest_ts + 1
          /\ Called("public_read") =>
                /\ gap_start = db_latest_ts + 1
                /\ gap_end = OldestTs(yf_rows) - 1
                /\ TimestampsOf(public_data) =
                      {r.timestamp : r \in
                          {x \in public[CurPair[1]] :
                              gap_start <= x.timestamp /\ x.timestamp <= gap_end}}
          /\ ~Called("public_read") => ~Called("upsert_gap") /\ public_data = <<>>

\* C6 witness: the secondary store has been read for a gap of two seconds
\* and returned a row.
C6_Witness ==
    /\ PastGap
    /\ Called("public_read")
    /\ gap_end = gap_start + 1
    /\ public_data # <<>>

\* C7: for a 1m pair with a non-empty gap every row the secondary store
\* returned is in the target table, written by a gap-fill upsert, when the
\* bulk upsert of the fetched series begins; the gap-fill upsert always
\* precedes the bulk upsert.
C7_GapFillBeforeBulk ==
    /\ (k >= 1 /\ pc = "upsert" /\ public_data # <<>>) =>
          /\ Called("upsert_gap")
          /\ ~Called("upsert_bulk")
          /\ \A i \in 1..Len(public_data) :
                RowOf(CurPair[1], public_data[i]) \in CurTable
    /\ \A i, j \in 1..Len(calls) :
          (calls[i] = "upsert_gap" /\ calls[j] = "upsert_bulk") => i < j

\* C7 witness: the bulk upsert is about to begin after a gap fill.
C7_Witness ==
    /\ k >= 1
    /\ pc = "upsert"
    /\ public_data # <<>>
    /\ CurPair[2] = "1m"

\* C8: reconciliation inspects and can change only the fetched candle at the
\* stored latest timestamp: without such a candle no comparison is made;
\* with either answer every other fetched candle stays as fetched; and the
\* bulk upsert writes, for every other fetched timestamp, the fetched values
\* (of the last candle of the series with that timestamp).
C8_OnlyBoundaryTouched ==
    [][ /\ pc \in {"reconcile", "candle"} =>
              /\ Len(yf_rows') = Len(yf_rows)
              /\ \A i \in 1..Len(yf_rows) :
                    yf_rows[i].timestamp # db_latest_ts' => yf_rows'[i] = yf_rows[i]
              /\ match_yf' = 0 <=> db_latest_ts' \notin TimestampsOf(yf_rows)
              /\ match_yf' = 0 =>
                    /\ "candle" \notin {calls'[i] : i \in 1..Len(calls')}
                    /\ log' \cap {"MATCH", "MISMATCH"} = {}
              /\ \A db \in db_candle' : \A ch \in {"1", "2"} :
                    LET kept == resolve_mismatch(yf_rows, match_yf', db, ch)
                    IN  /\ Len(kept) = Len(yf_rows)
                        /\ \A i \in 1..Len(yf_rows) :
                              i # match_yf' => kept[i] = yf_rows[i]
        /\ pc = "gap" => yf_rows' = yf_rows
        /\ pc = "upsert" =>
              /\ yf_rows' = yf_rows
              /\ \A ts \in TimestampsOf(yf_rows) :
                    ts # db_latest_ts =>
                        RowsAt(fronttest'[CurPair], ts) =
                            {RowOf(CurPair[1], LastWithTs(yf_rows, ts))}
      ]_vars

\* C8 witness: a bulk upsert has run for a series that holds the boundary
\* candle, mismatching, and a candle at another timestamp.
C8_Witness ==
    /\ BulkDone
    /\ match_yf # 0
    /\ "MISMATCH" \in log
    /\ \E i \in 1..Len(yf_rows) : yf_rows[i].timestamp # db_latest_ts

\* C9 as stated: on a boundary MISMATCH both resolutions are selectable.
\* The program reads no selection (the answer is the literal of line 392), so
\* the claim is taken for each of the two selections: after the bulk upsert
\* of a pair with a boundary MISMATCH, when keep-stored ("1") is selected it
\* is the resolution applied and the stored boundary candle is the one stored
\* before the run, and when keep-provider ("2") is selected it is the
\* resolution applied and the stored boundary candle holds the values of the
\* compared fetched candle.
C9_AsStated ==
    (BulkDone /\ "MISMATCH" \in log) =>
        \A db \in db_candle : \A selected \in {"1", "2"} :
            /\ (IF selected = "1" THEN "KEPT_FRONTTEST" ELSE "KEPT_YFINANCE")
                   \in log
            /\ RowsAt(CurTable, db_latest_ts) =
                   {RowOf(CurPair[1],
                          IF selected = "1" THEN db ELSE yf_rows[match_yf])}

(***************************************************************************)
(* Properties of the update run with store failures (SpecStoreFails).      *)
(***************************************************************************)
\* The store call that raised, when one did.
Raised(what) == pc = "raised" /\ calls # <<>> /\ calls[Len(calls)] = what

\* C11 as stated: a store failure (read or write) while one pair is being
\* processed aborts only that pair: the run does not stop on it with pairs
\* of the out-of-date list still unprocessed.
C11_AsStated ==
    (pc = "raised" /\ k >= 1) => k = Len(out_of_date_list)

\* C13: when the provider raises or returns an empty result for the full
\* history of a pair, and only then, the fetched series is empty; the pair is
\* then skipped: its iteration consists of the provider call alone (no
\* reconciliation, no gap fill, no upsert), no table is written, and main
\* goes on to the next out-of-date pair, or returns after the last one.
C13_ProviderFailureSkipsPair ==
    /\ []((pc = "fetch" /\ out_of_date_list[k + 1] = live) =>
             \A resp \in Responses(live[1]) :
                 (resp.raised \/ resp.hist = <<>>) <=>
                     fetch_full_yf_history(live[1], live[2], resp) = <<>>)
    /\ [][ pc = "fetch" =>
              /\ k' = k + 1
              /\ yf_rows' = <<>> =>
                    /\ fronttest' = fronttest
                    /\ calls' = <<"yf_history">>
                    /\ log' = {"NO_YF_SKIP"}
                    /\ pc' = IF k + 1 < Len(out_of_date_list) THEN "fetch" ELSE "done"
              /\ yf_rows' # <<>> => pc' = "reconcile" /\ "NO_YF_SKIP" \notin log'
          ]_vars

\* C13 witness: the pair with stored rows has been skipped for want of
\* provider data and the next pair is about to be processed.
C13_Witness ==
    /\ k >= 1
    /\ "NO_YF_SKIP" \in log
    /\ CurPair = live
    /\ CurTable # {}
    /\ pc = "fetch"

\* C14 as stated: when the secondary store has no row for the gap or cannot
\* be reached, no gap row is written and the pair goes on to its bulk
\* upsert: the run does not end at the secondary read.
C14_AsStated ==
    (k >= 1 /\ ("PUBLIC_NONE" \in log \/ Raised("raise_public_read"))) =>
        /\ ~Called("upsert_gap")
        /\ pc = "upsert" \/ BulkDone

\* C15: once the bulk upsert of a pair has committed, the fetched series is
\* not empty and every timestamp of it has its one row in the pair's table,
\* with the values of the fetched candle as reconciliation left it (of the
\* last one when the series repeats the timestamp).  For a table that was
\* empty when the pair was taken up, no boundary candle is read, no deadzone
\* is looked for and the secondary store is not read, and the pair goes
\* straight to its bulk upsert.
C15_FetchedSeriesStored ==
    /\ BulkDone =>
          /\ yf_rows # <<>>
          /\ \A ts \in TimestampsOf(yf_rows) :
                RowsAt(CurTable, ts) = {RowOf(CurPair[1], LastWithTs(yf_rows, ts))}
    /\ (k >= 1 /\ "EMPTY_TABLE" \in log) =>
          /\ db_latest_ts = NoTs
          /\ db_candle = {}
          /\ match_yf = 0
          /\ log = {"EMPTY_TABLE"}
          /\ ~Called("candle")
          /\ ~Called("public_read")
          /\ ~Called("upsert_gap")
          /\ pc = "upsert" \/ BulkDone \/ Raised("raise_upsert_bulk")
    /\ (BulkDone /\ db_latest_ts = NoTs) =>
          /\ calls = <<"yf_history", "max_ts", "upsert_bulk">>
          /\ {r.timestamp : r \in CurTable} = TimestampsOf(yf_rows)

\* C15 witness: the bulk upsert of a series of two timestamps has committed
\* into a table that was empty.
C15_Witness ==
    /\ BulkDone
    /\ db_latest_ts = NoTs
    /\ Cardinality(TimestampsOf(yf_rows)) = 2
    /\ Cardinality(CurTable) = 2

\* C16: no step of an update run deletes a candle: across every step, a
\* raising store call included, the set of (symbol, timestamp) keys present
\* in each target table grows or stays the same.
C16_NoCandleDeleted ==
    [][\A p \in PairSet : KeysOf(fronttest[p]) \subseteq KeysOf(fronttest'[p])]_vars

\* C16 witness: a bulk upsert has committed into a table that holds a row at
\* a timestamp the fetched series does not have, next to rows it has
\* rewritten.
C16_Witness ==
    /\ BulkDone
    /\ db_latest_ts # NoTs
    /\ \E r \in CurTable : r.timestamp \notin TimestampsOf(yf_rows)
    /\ \E r \in CurTable : r.timestamp \in TimestampsOf(yf_rows)

\* C17: every candle the update run hands to upsert_rows (the fetched series
\* as reconciliation left it, the gap-fill candles of the secondary store)
\* and every row a step writes into a target table carries a candle_color
\* that is green, red or doji and is the colour of its own open and close:
\* green if close > open, red if close < open, doji if they are equal.
C17_ColorRecomputed ==
    /\ [](\A c \in {yf_rows[i] : i \in 1..Len(yf_rows)}
                    \cup {public_data[i] : i \in 1..Len(public_data)} :
             /\ c.candle_color \in {"green", "red", "doji"}
             /\ c.candle_color = "green" <=> c.close > c.open
             /\ c.candle_color = "red" <=> c.close < c.open
             /\ c.candle_color = "doji" <=> c.close = c.open)
    /\ [][\A p \in PairSet : \A r \in fronttest'[p] \ fronttest[p] :
             /\ r.candle_color \in {"green", "red", "doji"}
             /\ r.candle_color = "green" <=> r.close > r.open
             /\ r.candle_color = "red" <=> r.close < r.open
             /\ r.candle_color = "doji" <=> r.close = r.open]_vars

\* C17 witness: the bulk upsert of a pair has rewritten a stored boundary
\* candle, loaded as green with equal open and close, whose prices
\* mismatched the fetched candle.
C17_Witness ==
    /\ BulkDone
    /\ "MISMATCH" \in log
    /\ \E db \in db_candle : db.candle_color = "green" /\ db.open = db.close
    /\ \A r \in CurTable : r.candle_color = "green" => r.close > r.open

\* main() is over: it returned, or an exception left it.
MainEnded == pc \in {"done", "raised"}

\* The place of a call in the iteration of a pair; a call that raised has the
\* place of the call.
StepRank(call) ==
    IF call = "yf_history" THEN 1
    ELSE IF call \in {"max_ts", "raise_max_ts"} THEN 2
    ELSE IF call \in {"candle", "raise_candle"} THEN 3
    ELSE IF call \in {"public_read", "raise_public_read"} THEN 4
    ELSE IF call \in {"upsert_gap", "raise_upsert_gap"} THEN 5
    ELSE 6

\* C19 as stated: every pair the scan found not up to date has its update
\* attempted exactly once in the run, after the scan of all pairs has
\* finished and without a prompt being able to skip it, and within a pair the
\* steps run in the order fetch history, reconcile boundary, detect and fill
\* the gap, bulk upsert.
C19_AsStated ==
    /\ \A i, j \in 1..Len(out_of_date_list) :
          out_of_date_list[i] = out_of_date_list[j] => i = j
    /\ (pc \notin {"scan", "raised"}) => Len(results) = Len(SYMBOLS) * Len(TIMEFRAMES)
    /\ k >= 1 => Len(results) = Len(SYMBOLS) * Len(TIMEFRAMES)
    /\ "SKIPPING" \notin log
    /\ k >= 1 =>
          /\ calls # <<>>
          /\ calls[1] = "yf_history"
          /\ \A i, j \in 1..Len(calls) :
                i < j => StepRank(calls[i]) < StepRank(calls[j])
    /\ MainEnded => k = Len(out_of_date_list)

\* C20: the staleness scan writes nothing, and a pair the scan judged up to
\* date is never written during the run: every step of the scan leaves both
\* stores as they are, and every step of the run leaves the table of every
\* pair judged up to date as it is, and the pair judged up to date and out of
\* the list of pairs to update; so its table at the end of the run is its
\* table at the start.
C20_UpToDateNeverWritten ==
    [][ /\ pc = "scan" => fronttest' = fronttest /\ public' = public
        /\ \A p \in UpToDatePairs(results) :
              /\ fronttest'[p] = fronttest[p]
              /\ p \in UpToDatePairs(results')
              /\ \A i \in 1..Len(out_of_date_list') : out_of_date_list'[i] # p
      ]_vars

\* C20 witness: main has returned from a run in which the pair with stored
\* rows and provider data was judged up to date and the update of every
\* other pair was attempted.
C20_Witness ==
    /\ pc = "done"
    /\ live \in UpToDatePairs(results)
    /\ fronttest[live] # {}
    /\ k = Len(SYMBOLS) * Len(TIMEFRAMES) - 1

\* C21: every candle a gap fill writes has a timestamp strictly between the
\* stored latest timestamp and the oldest fetched timestamp.  The gap fill
\* therefore only inserts new keys: every row stored before it is still
\* there, unchanged, after it; and the bulk upsert that follows leaves every
\* gap-filled row as the gap fill wrote it.
C21_GapFillOnlyInserts ==
    /\ []((k >= 1 /\ public_data # <<>>) =>
             \A i \in 1..Len(public_data) :
                 /\ db_latest_ts # NoTs
                 /\ db_latest_ts < public_data[i].timestamp
                 /\ public_data[i].timestamp < OldestTs(yf_rows)
                 /\ \A j \in 1..Len(yf_rows) :
                       yf_rows[j].timestamp # public_data[i].timestamp)
    /\ [][ /\ pc = "gap" =>
                /\ fronttest[CurPair] \subseteq fronttest'[CurPair]
                /\ KeysOf(fronttest'[CurPair]) \ KeysOf(fronttest[CurPair])
                       \subseteq {<<CurPair[1], public_data'[i].timestamp>> :
                                      i \in 1..Len(public_data')}
                /\ \A p \in PairSet \ {CurPair} : fronttest'[p] = fronttest[p]
           /\ (pc = "upsert" /\ Called("upsert_gap")) =>
                \A i \in 1..Len(public_data) :
                    /\ RowOf(CurPair[1], public_data[i]) \in fronttest[CurPair]
                    /\ RowOf(CurPair[1], public_data[i]) \in fronttest'[CurPair]
          ]_vars

\* C21 witness: a gap of two seconds has been filled with two rows of the
\* secondary store, next to a stored row, and the bulk upsert has committed.
C21_Witness ==
    /\ BulkDone
    /\ Called("upsert_gap")
    /\ Len(public_data) = 2
    /\ Cardinality(CurTable) >= 4
    /\ \A i \in 1..Len(public_data) : RowOf(CurPair[1], public_data[i]) \in CurTable

(***************************************************************************)
(* Properties of the second pass over a pair (SpecRerun).                  *)
(***************************************************************************)
\* The second run has taken the pair up again, with the series of the first
\* run, and has reached, or gone through, its bulk upsert.
SecondPassPastGap ==
    /\ probe.op = "rerun"
    /\ probe.run = 2
    /\ k >= 1
    /\ CurPair = live
    /\ calls # <<>>
    /\ pc = "upsert" \/ BulkDone

\* C22 as stated: with the provider history, the secondary store and the
\* keep-provider policy unchanged, processing the same pair a second time
\* leaves its table exactly as the first run left it, and the second run
\* detects neither a deadzone nor a boundary mismatch.
C22_AsStated ==
    SecondPassPastGap =>
        /\ BulkDone => fronttest[live] = probe.first
        /\ "DEADZONE" \notin log
        /\ "MISMATCH" \notin log

(***************************************************************************)
(* Properties of upsert_rows (SpecUpsert).                                 *)
(***************************************************************************)
\* C1: calling upsert_rows twice in a row with the same candle sequence
\* leaves the table exactly as the first call left it.
C1_UpsertIdempotent ==
    (probe.op = "upsert" /\ probe.n = 2
        /\ probe.written = probe.candles \o probe.candles) =>
        /\ fronttest[live] = probe.before
        /\ probe.count = Len(probe.candles)

\* C1 witness: a sequence that updates a stored row and repeats a timestamp
\* with different values has been written twice.
C1_Witness ==
    /\ probe.op = "upsert"
    /\ probe.n = 2
    /\ probe.written = probe.candles \o probe.candles
    /\ Len(probe.candles) = 2
    /\ probe.candles[1].timestamp = probe.candles[2].timestamp
    /\ probe.candles[1] # probe.candles[2]
    /\ probe.candles[2].volume > 0

\* C2: after candle A and then candle B with the same timestamp have been
\* written, in one call or in two successive calls, the table holds for that
\* timestamp one row with exactly B's open, high, low, close, volume and
\* candle_color.
C2_LastWriteWins ==
    (probe.op = "upsert" /\ probe.n >= 1) =>
        \A ts \in TimestampsOf(probe.written) :
            LET B == LastWithTs(probe.written, ts)
            IN  \A r \in RowsAt(fronttest[live], ts) :
                    /\ r.open = B.open
                    /\ r.high = B.high
                    /\ r.low = B.low
                    /\ r.close = B.close
                    /\ r.volume = B.volume
                    /\ r.candle_color = B.candle_color
                    /\ Cardinality(RowsAt(fronttest[live], ts)) = 1

\* C2 witness: a second call has written a candle B over a candle A of the
\* first call that differs from B in all six fields.
C2_Witness ==
    /\ probe.op = "upsert"
    /\ probe.n = 2
    /\ Len(probe.candles) = 1
    /\ \E i \in 1..(Len(probe.written) - 1) :
          LET A == probe.written[i]
              B == probe.candles[1]
          IN  /\ A.timestamp = B.timestamp
              /\ A.open # B.open
              /\ A.high # B.high
              /\ A.low # B.low
              /\ A.close # B.close
              /\ A.volume # B.volume
              /\ A.candle_color # B.candle_color
              /\ RowOf(live[1], B) \in fronttest[live]

\* C12: each upsert_rows call is atomic.  When the statement of any candle
\* of the sequence raises, the table is afterwards as it was before the
\* call: none of the call's candles has become visible.  When the call
\* returns, every candle was written: each timestamp of the sequence has its
\* one row, with the values of the last candle of the call at that timestamp,
\* and the count returned is the length of the sequence.
C12_UpsertAtomic ==
    (probe.op = "upsert" /\ probe.n >= 1) =>
        IF probe.raised
        THEN fronttest[live] = probe.before
        ELSE /\ \A ts \in TimestampsOf(probe.candles) :
                    RowsAt(fronttest[live], ts) =
                        {RowOf(live[1], LastWithTs(probe.candles, ts))}
             /\ probe.count = Len(probe.candles)

\* C12 witness: a call of two candles has raised at its second statement
\* after the first statement had executed an update of a stored row.
C12_Witness ==
    /\ probe.op = "upsert"
    /\ probe.raised
    /\ Len(probe.candles) = 2
    /\ probe.count = 1
    /\ RowsAt(probe.before, probe.candles[1].timestamp) # {}
    /\ RowOf(live[1], probe.candles[1]) \notin probe.before

(***************************************************************************)
(* Properties of the timestamp alignment (SpecAlign).                      *)
(***************************************************************************)
\* C18: a timestamp normalized for timeframe 1d is 14:30:00 UTC for spy and
\* 00:00:00 UTC for every other symbol, on the calendar date of the UTC
\* source timestamp; for (eurusd, 5m) it is the source timestamp plus exactly
\* five hours; for every other pair it is the source timestamp unchanged.
\* The latest-candle fetch and the full-history fetch give the same result.
C18_TimestampAlignment ==
    probe.op = "align" =>
        \A got \in {probe.latest, probe.full} \ {NoTs} :
            /\ probe.timeframe = "1d" =>
                  /\ got \div 86400 = probe.source \div 86400
                  /\ got % 86400 = IF probe.symbol = "spy"
                                   THEN 14 * 3600 + 30 * 60
                                   ELSE 0
            /\ (probe.symbol = "eurusd" /\ probe.timeframe = "5m") =>
                  got = probe.source + 5 * 3600
            /\ (probe.timeframe # "1d"
                  /\ ~(probe.symbol = "eurusd" /\ probe.timeframe = "5m")) =>
                  got = probe.source
            /\ (probe.latest # NoTs /\ probe.full # NoTs) =>
                  probe.latest = probe.full

\* C18 witness: both fetchers have put the daily spy candle of 2025-03-26
\* 23:59:59 at 2025-03-26 14:30:00.
C18_Witness ==
    /\ probe.op = "align"
    /\ probe.symbol = "spy"
    /\ probe.timeframe = "1d"
    /\ probe.source = 20173 * 86400 + 86399
    /\ probe.latest = 20173 * 86400 + 52200
    /\ probe.full = probe.latest

(***************************************************************************)
(* Properties of the boundary comparison (SpecMatch).                      *)
(***************************************************************************)
\* C10 as stated: the boundary candle is a MATCH if and only if the open
\* difference and the close difference are both at most the symbol's
\* threshold (es 0.25, eurusd 0.0005, spy 0.1, otherwise 0.01), inclusive;
\* high, low and volume play no part.  For es, open 5000.00 against 5000.10
\* is a MATCH and against 5000.50 a MISMATCH.
C10_AsStated ==
    (probe.op = "match" /\ probe.verdict # "NONE") =>
        LET limit == IF probe.sym = "es" THEN 2500
                     ELSE IF probe.sym = "eurusd" THEN 5
                     ELSE IF probe.sym = "spy" THEN 1000
                     ELSE 100
            d_open == probe.db.open - probe.yf.open
            d_close == probe.db.close - probe.yf.close
        IN  /\ probe.verdict = "MATCH" <=>
                  /\ d_open <= limit /\ -d_open <= limit
                  /\ d_close <= limit /\ -d_close <= limit
            /\ probe.verdict \in {"MATCH", "MISMATCH"}
            /\ (probe.sym = "es" /\ probe.db.open = 50000000 /\ d_close = 0) =>
                  /\ probe.yf.open = 50001000 => probe.verdict = "MATCH"
                  /\ probe.yf.open = 50005000 => probe.verdict = "MISMATCH"

====
